---- MODULE Spec2Model ----
(***************************************************************************)
(* The MediaPlayer controller of MediaPlayer/src/MediaPlayer.cpp: one      *)
(* controller instance, its dispatcher (the g_main_loop thread that runs   *)
(* the posted handle* closures and handleBusMessage), the URL preparation  *)
(* thread (m_setSourceThread running handleSetSource), the pipeline engine *)
(* as far as the controller observes it (state, pending state, bus), the   *)
(* source adapters as far as the controller calls them, and the observer   *)
(* as what it has been told: the callbacks of the last step and, per id,   *)
(* which opening and closing callbacks it has received so far.             *)
(*                                                                         *)
(* A dispatcher closure runs to completion before the next one starts, so  *)
(* each handler is one action.  handleSetSource runs on its own thread     *)
(* with no lock, so it is split at its writes to shared members.           *)
(***************************************************************************)
EXTENDS Integers, Sequences, FiniteSets, TLC

\* ------------------------------------------------------------------ bounds
MaxId == 2          \* setSource stops minting when g_id has reached MaxId
MaxAdapters == 2    \* adapters constructed in one behaviour
MaxBus == 2         \* bus messages waiting for the dispatcher
MaxOther == 1       \* of these, messages other than state-changed
MaxUrlPosted == 2   \* URL setSource closures posted and not yet run (two callers)
MaxSettle == 8      \* engine moves and bus messages followed after a command
MaxIdle == 1        \* command closures posted with g_idle_add and not yet run

\* --------------------------------------------------------------- constants
ERROR_SOURCE_ID == 0
MEDIA_PLAYER_INVALID_OFFSET == -1
NoSource == 0       \* m_source == nullptr; adapters are numbered from 1
NoElement == 0      \* m_pipeline.appsrc / m_pipeline.decoder == nullptr
NanosPerMilli == 1000000
GST_SET_VOLUME_MIN == 0
GST_SET_VOLUME_MAX == 1
GST_ADJUST_VOLUME_MIN == -1
GST_ADJUST_VOLUME_MAX == 1
AVS_SET_VOLUME_MIN == 0
AVS_SET_VOLUME_MAX == 100
AVS_ADJUST_VOLUME_MIN == -100
AVS_ADJUST_VOLUME_MAX == 100
Milli == 1000       \* a gdouble is kept as the number of its thousandths

Ids == 0..MaxId                  \* ids a caller may quote, ERROR included
Offsets == {30000}               \* setOffset arguments, milliseconds
Positions == {0, 1999999}        \* engine play positions, nanoseconds
BelowFull == 30                  \* a BUFFERING percent below 100
Full == 100
Volumes == AVS_SET_VOLUME_MIN..AVS_SET_VOLUME_MAX        \* setVolume arguments
Deltas == AVS_ADJUST_VOLUME_MIN..AVS_ADJUST_VOLUME_MAX   \* adjustVolume arguments

GstStates == <<"NULL", "READY", "PAUSED", "PLAYING">>
VOID_PENDING == "VOID"

Rank(s) == CHOOSE i \in 1..4 : GstStates[i] = s

Min(a, b) == IF a < b THEN a ELSE b

\* ------------------------------------------------------------------- state
VARIABLES
    g_id,                    \* static SourceId g_id
    m_source,                \* adapter held by m_source, NoSource when null
    m_currentId,
    m_playbackStartedSent,
    m_playbackFinishedSent,
    m_isPaused,
    m_isBufferUnderrun,
    m_playPending,
    m_pausePending,
    m_resumePending,
    m_pauseImmediately,
    m_playerObserver,        \* TRUE when an observer is set
    appsrc,                  \* adapter whose source element is in the bin
    decoder,                 \* adapter whose decoder element is in the bin
    seekPoint,               \* m_offsetManager: pending seek point
    seekPointSet,
    isSeekable,
    gstState,                \* engine: current state of the pipeline
    gstTarget,               \* engine: state last requested
    bus,                     \* engine: messages waiting on the bus
    autoFlush,               \* engine: the pipeline's auto-flush-bus property
    gstFlow,                 \* engine: whether the buffer is filling, and from where
    gstVolume,               \* engine: "volume" of the volume element, thousandths
    gstMute,                 \* engine: "mute" of the volume element
    hook,                    \* engine thread in onPadAdded: "none", "waiting", "linked", "stuck"
    nAdapters,               \* adapters constructed so far
    shut,                    \* adapters whose shutdown() was called
    emitted,                 \* observer: callbacks of the last step, <<kind, id>>
    delivered,               \* observer: started/finished/stopped/error received
    open,                    \* observer: per id, the paused/underrun not yet closed
    returned,                \* ids returned by successful setSource calls
    thr,                     \* m_setSourceThread: position and locals
    joinable,                \* m_setSourceThread.joinable()
    urlPosted,               \* URL setSource closures posted, not yet run
    idle,                    \* command closures posted, not yet run, oldest first
    dtor,                    \* ~MediaPlayer: "none", "join" once begun, "done"
    crashed                  \* the process has aborted

ctl == <<m_source, m_currentId, m_playbackStartedSent, m_playbackFinishedSent,
         m_isPaused, m_isBufferUnderrun, m_playPending, m_pausePending,
         m_resumePending, m_pauseImmediately, m_playerObserver,
         appsrc, decoder, seekPoint, seekPointSet, isSeekable>>
eng == <<gstState, gstTarget, bus, autoFlush, gstFlow, gstVolume, gstMute,
         hook>>
adp == <<nAdapters, shut>>
obs == <<emitted, delivered, open>>
vars == <<g_id, ctl, eng, adp, obs, returned, thr, joinable, urlPosted,
          idle, dtor, crashed>>

\* The members a dispatcher closure reads and writes, as one record, so
\* that the statements of a handler compose in order.  Three fields are not
\* members: ret is the value the closure hands to its promise, sets the
\* number of times it has called set_value on the promise, calls the
\* adapter methods the command has called, in order.
World ==
    [g_id |-> g_id, m_source |-> m_source, m_currentId |-> m_currentId,
     m_playbackStartedSent |-> m_playbackStartedSent,
     m_playbackFinishedSent |-> m_playbackFinishedSent,
     m_isPaused |-> m_isPaused, m_isBufferUnderrun |-> m_isBufferUnderrun,
     m_playPending |-> m_playPending, m_pausePending |-> m_pausePending,
     m_resumePending |-> m_resumePending,
     m_pauseImmediately |-> m_pauseImmediately,
     m_playerObserver |-> m_playerObserver,
     appsrc |-> appsrc, decoder |-> decoder,
     seekPoint |-> seekPoint, seekPointSet |-> seekPointSet,
     isSeekable |-> isSeekable,
     gstState |-> gstState, gstTarget |-> gstTarget, bus |-> bus,
     autoFlush |-> autoFlush, gstFlow |-> gstFlow,
     gstVolume |-> gstVolume, gstMute |-> gstMute, hook |-> hook,
     nAdapters |-> nAdapters, shut |-> shut,
     emitted |-> <<>>, delivered |-> delivered, open |-> open,
     returned |-> returned, crashed |-> crashed,
     ret |-> "none", sets |-> 0, calls |-> <<>>]

Commit(w) ==
    /\ hook # "stuck"
    /\ g_id' = w.g_id
    /\ m_source' = w.m_source
    /\ m_currentId' = w.m_currentId
    /\ m_playbackStartedSent' = w.m_playbackStartedSent
    /\ m_playbackFinishedSent' = w.m_playbackFinishedSent
    /\ m_isPaused' = w.m_isPaused
    /\ m_isBufferUnderrun' = w.m_isBufferUnderrun
    /\ m_playPending' = w.m_playPending
    /\ m_pausePending' = w.m_pausePending
    /\ m_resumePending' = w.m_resumePending
    /\ m_pauseImmediately' = w.m_pauseImmediately
    /\ m_playerObserver' = w.m_playerObserver
    /\ appsrc' = w.appsrc
    /\ decoder' = w.decoder
    /\ seekPoint' = w.seekPoint
    /\ seekPointSet' = w.seekPointSet
    /\ isSeekable' = w.isSeekable
    /\ gstState' = w.gstState
    /\ gstTarget' = w.gstTarget
    /\ bus' = w.bus
    /\ autoFlush' = w.autoFlush
    /\ gstFlow' = w.gstFlow
    /\ gstVolume' = w.gstVolume
    /\ gstMute' = w.gstMute
    /\ hook' = w.hook
    /\ nAdapters' = w.nAdapters
    /\ shut' = w.shut
    /\ emitted' = w.emitted
    /\ delivered' = w.delivered
    /\ open' = w.open
    /\ returned' = w.returned
    /\ crashed' = w.crashed
    /\ Len(w.bus) <= MaxBus

\* ------------------------------------------------------------------ engine
\* The data flow of the pipeline: filling while the buffer of the decoder
\* is on its way to full, pos the position the flow started from, in
\* milliseconds (0: the start of the stream; otherwise the target of the last
\* seek).
NoFlow == [filling |-> FALSE, pos |-> 0]

StateChanged(old, new, pending) ==
    [type |-> "STATE_CHANGED", old |-> old, new |-> new, pending |-> pending,
     percent |-> 0]
Plain(type) ==
    [type |-> type, old |-> VOID_PENDING, new |-> VOID_PENDING,
     pending |-> VOID_PENDING, percent |-> 0]
Buffering(p) == [Plain("BUFFERING") EXCEPT !.percent = p]

\* The state-changed messages of the pipeline going from state `from` down
\* to NULL, in the order the engine posts them.
RECURSIVE DownToNull(_)
DownToNull(from) ==
    IF from = "NULL" THEN <<>>
    ELSE LET new == GstStates[Rank(from) - 1]
         IN <<StateChanged(from, new,
                           IF new = "NULL" THEN VOID_PENDING ELSE "NULL")>>
            \o DownToNull(new)

\* gst_element_set_state(m_pipeline.pipeline, s).  A change to NULL is
\* synchronous: the pipeline is in NULL when the call returns, and a
\* pipeline with auto-flush-bus set (the default of gst_pipeline_new) has
\* flushed its bus by then; without it the messages of the change are on
\* the bus.  A change to another state is
\* carried out by the engine later (EngineTransition).  A failed call
\* (GST_STATE_CHANGE_FAILURE) changes nothing.
gstSetState(w, s, fail) ==
    IF fail THEN w
    ELSE IF s = "NULL"
    THEN [w EXCEPT !.gstState = "NULL", !.gstTarget = "NULL",
                   !.gstFlow = NoFlow,
                   !.hook = IF @ = "waiting" /\ w.gstState # "NULL"
                            THEN "stuck" ELSE @,
                   !.bus = IF w.autoFlush THEN <<>> ELSE @ \o DownToNull(w.gstState)]
    ELSE [w EXCEPT !.gstTarget = s]

\* gst_element_get_state(..., TIMEOUT_ZERO_NANOSECONDS): pending state.
gstPending(w) == IF w.gstState = w.gstTarget THEN VOID_PENDING ELSE w.gstTarget

\* ---------------------------------------------------------------- observer
\* The observer keeps, of what it is told, the callbacks that open or close
\* a playback, and per id the interval a paused or underrun callback has
\* opened and no resumed or refilled callback has closed yet.
Milestones == {"started", "finished", "stopped", "error"}
Terminal == {"finished", "stopped", "error"}

OpenAfter(o, kind) ==
    CASE kind = "paused" -> "paused"
      [] kind = "underrun" -> "underrun"
      [] kind \in {"resumed", "refilled"} -> "none"
      [] OTHER -> o

\* if (m_playerObserver) m_playerObserver->on<Kind>(m_currentId, ...)
Notify(w, kind) ==
    IF w.m_playerObserver
    THEN [w EXCEPT !.emitted = Append(@, <<kind, w.m_currentId>>),
                   !.delivered = IF kind \in Milestones
                                 THEN @ \cup {<<kind, w.m_currentId>>} ELSE @,
                   !.open[w.m_currentId] = OpenAfter(@, kind)]
    ELSE w

\* if (m_source) m_source->shutdown();  m_source.reset();
shutdownSource(w) ==
    IF w.m_source = NoSource THEN w
    ELSE [w EXCEPT !.shut = @ \cup {w.m_source},
                   !.calls = Append(@, "shutdown"),
                   !.m_source = NoSource]

\* tearDownRest leaving the offset manager as it is: the variant
\* SeekPointCleared tells from tearDownRest.
tearDownRestKeepingOffset(w) ==
    LET w1 == shutdownSource([w EXCEPT !.m_currentId = ERROR_SOURCE_ID])
        w2 == gstSetState(w1, "NULL", FALSE)
    IN [w2 EXCEPT !.appsrc = NoElement, !.decoder = NoElement,
                  !.hook = IF @ = "stuck" THEN @ ELSE "none",
                  !.m_playPending = FALSE, !.m_pausePending = FALSE,
                  !.m_resumePending = FALSE, !.m_pauseImmediately = FALSE,
                  !.m_playbackStartedSent = FALSE,
                  !.m_playbackFinishedSent = FALSE,
                  !.m_isPaused = FALSE, !.m_isBufferUnderrun = FALSE]

\* The statements of tearDownTransientPipelineElements after its call of
\* sendPlaybackStopped.  The result of gst_element_set_state is not looked
\* at there.
tearDownRest(w) ==
    LET w1 == shutdownSource([w EXCEPT !.m_currentId = ERROR_SOURCE_ID])
        w2 == gstSetState(w1, "NULL", FALSE)
    IN [w2 EXCEPT !.appsrc = NoElement, !.decoder = NoElement,
                  !.hook = IF @ = "stuck" THEN @ ELSE "none",
                  !.seekPointSet = FALSE, !.seekPoint = 0,
                  !.isSeekable = FALSE,
                  !.m_playPending = FALSE, !.m_pausePending = FALSE,
                  !.m_resumePending = FALSE, !.m_pauseImmediately = FALSE,
                  !.m_playbackStartedSent = FALSE,
                  !.m_playbackFinishedSent = FALSE,
                  !.m_isPaused = FALSE, !.m_isBufferUnderrun = FALSE]

RECURSIVE tearDownTransientPipelineElements(_), sendPlaybackStopped(_)

tearDownTransientPipelineElements(w) ==
    IF w.m_currentId # ERROR_SOURCE_ID
    THEN tearDownRest(sendPlaybackStopped(w))
    ELSE tearDownRest(w)

sendPlaybackStopped(w) ==
    LET w1 == IF ERROR_SOURCE_ID # w.m_currentId THEN Notify(w, "stopped") ELSE w
    IN tearDownTransientPipelineElements(
           [w1 EXCEPT !.m_currentId = ERROR_SOURCE_ID])

sendPlaybackStarted(w) ==
    IF ~w.m_playbackStartedSent
    THEN Notify([w EXCEPT !.m_playbackStartedSent = TRUE,
                          !.m_playPending = FALSE], "started")
    ELSE w

sendPlaybackFinished(w) ==
    LET w1 == [shutdownSource(w) EXCEPT !.m_isPaused = FALSE,
                                        !.m_playbackStartedSent = FALSE]
        w2 == IF ~w1.m_playbackFinishedSent
              THEN Notify([w1 EXCEPT !.m_playbackFinishedSent = TRUE], "finished")
              ELSE w1
    IN tearDownTransientPipelineElements(
           [w2 EXCEPT !.m_currentId = ERROR_SOURCE_ID])

sendPlaybackPaused(w) == Notify([w EXCEPT !.m_pausePending = FALSE], "paused")

sendPlaybackResumed(w) == Notify([w EXCEPT !.m_resumePending = FALSE], "resumed")

sendPlaybackError(w) ==
    LET w1 == Notify([w EXCEPT !.m_playPending = FALSE,
                               !.m_pausePending = FALSE,
                               !.m_resumePending = FALSE,
                               !.m_pauseImmediately = FALSE], "error")
    IN tearDownTransientPipelineElements(
           [w1 EXCEPT !.m_currentId = ERROR_SOURCE_ID])

sendBufferUnderrun(w) == Notify(w, "underrun")

sendBufferRefilled(w) == Notify(w, "refilled")

sendStreamTagsToObserver(w) == Notify(w, "tags")

validateSourceAndId(w, id) ==
    /\ w.m_source # NoSource
    /\ id = w.m_currentId

\* ------------------------------------------------------ command handlers
\* What the engine and the adapter answer during one handler: the handler
\* reads each answer at the call the field is named after.
\* getFail: gst_element_get_state answers FAILURE; setFail:
\* gst_element_set_state answers FAILURE; useBuffering: the decoder's
\* "use-buffering" property; posFail: gst_element_query_position fails;
\* pos: the position it reports, in nanoseconds.
CmdOk ==
    [getFail |-> FALSE, setFail |-> FALSE, useBuffering |-> FALSE,
     posFail |-> FALSE, pos |-> 0]

\* promise->set_value(v)
Ret(w, v) == [w EXCEPT !.ret = v, !.sets = @ + 1]

handlePlay(w, id, e) ==
    IF ~validateSourceAndId(w, id) THEN Ret(w, FALSE)
    ELSE IF e.getFail THEN Ret(w, FALSE)
    ELSE IF w.gstState = "PLAYING" THEN Ret(w, FALSE)
    ELSE IF w.m_playPending THEN Ret(w, FALSE)
    ELSE LET w1 == [w EXCEPT !.m_playbackFinishedSent = FALSE,
                             !.m_playbackStartedSent = FALSE,
                             !.m_playPending = TRUE,
                             !.m_pauseImmediately = FALSE,
                             !.ret = TRUE, !.sets = @ + 1]
             startingState == IF e.useBuffering THEN "PAUSED" ELSE "PLAYING"
         IN IF e.setFail
            THEN sendPlaybackError(w1)
            ELSE gstSetState(w1, startingState, FALSE)

\* handleStop with the two "already stopped" tests left out: the variant
\* StopOnStoppedSource tells from handleStop.
handleStopUnchecked(w, id, e) ==
    IF ~validateSourceAndId(w, id) THEN Ret(w, FALSE)
    ELSE IF e.getFail THEN Ret(w, FALSE)
    ELSE IF e.setFail THEN Ret(w, FALSE)
    ELSE LET w1 == Ret(gstSetState(w, "NULL", FALSE), TRUE)
             w2 == IF w1.m_playPending THEN sendPlaybackStarted(w1)
                   ELSE IF w1.m_resumePending THEN sendPlaybackResumed(w1)
                   ELSE w1
         IN sendPlaybackStopped(w2)

handleStop(w, id, e) ==
    IF ~validateSourceAndId(w, id) THEN Ret(w, FALSE)
    ELSE IF e.getFail THEN Ret(w, FALSE)
    ELSE IF w.gstState = "NULL" THEN Ret(w, FALSE)
    ELSE IF gstPending(w) = "NULL" THEN Ret(w, FALSE)
    ELSE IF e.setFail THEN Ret(w, FALSE)
    ELSE LET w1 == Ret(gstSetState(w, "NULL", FALSE), TRUE)
             w2 == IF w1.m_playPending THEN sendPlaybackStarted(w1)
                   ELSE IF w1.m_resumePending THEN sendPlaybackResumed(w1)
                   ELSE w1
         IN sendPlaybackStopped(w2)

\* handlePause telling the observer of a pause it turns down: the variant
\* RejectedCommandIsSilent tells from handlePause.
handlePauseReporting(w, id, e) ==
    IF ~validateSourceAndId(w, id) THEN Ret(w, FALSE)
    ELSE IF e.getFail THEN Ret(w, FALSE)
    ELSE IF w.m_playPending \/ w.m_resumePending
    THEN IF w.m_pausePending THEN Ret(sendPlaybackError(w), FALSE)
         ELSE IF e.setFail THEN Ret(w, FALSE)
         ELSE Ret([gstSetState(w, "PAUSED", FALSE)
                      EXCEPT !.m_pauseImmediately = TRUE], TRUE)
    ELSE IF w.gstState # "PLAYING" THEN Ret(sendPlaybackError(w), FALSE)
    ELSE IF w.m_pausePending THEN Ret(sendPlaybackError(w), FALSE)
    ELSE IF e.setFail THEN Ret(w, FALSE)
    ELSE Ret([gstSetState(w, "PAUSED", FALSE)
                 EXCEPT !.m_pausePending = TRUE], TRUE)

\* handlePause taking the immediate branch whether or not a pause is
\* pending: the variant PauseBranches tells from handlePause.
handlePauseRegardless(w, id, e) ==
    IF ~validateSourceAndId(w, id) THEN Ret(w, FALSE)
    ELSE IF e.getFail THEN Ret(w, FALSE)
    ELSE IF w.m_playPending \/ w.m_resumePending
    THEN IF e.setFail THEN Ret(w, FALSE)
         ELSE Ret([gstSetState(w, "PAUSED", FALSE)
                      EXCEPT !.m_pauseImmediately = TRUE], TRUE)
    ELSE IF w.gstState # "PLAYING" THEN Ret(w, FALSE)
    ELSE IF w.m_pausePending THEN Ret(w, FALSE)
    ELSE IF e.setFail THEN Ret(w, FALSE)
    ELSE Ret([gstSetState(w, "PAUSED", FALSE)
                 EXCEPT !.m_pausePending = TRUE], TRUE)

handlePause(w, id, e) ==
    IF ~validateSourceAndId(w, id) THEN Ret(w, FALSE)
    ELSE IF e.getFail THEN Ret(w, FALSE)
    ELSE IF w.m_playPending \/ w.m_resumePending
    THEN IF w.m_pausePending THEN Ret(w, FALSE)
         ELSE IF e.setFail THEN Ret(w, FALSE)
         ELSE Ret([gstSetState(w, "PAUSED", FALSE)
                      EXCEPT !.m_pauseImmediately = TRUE], TRUE)
    ELSE IF w.gstState # "PLAYING" THEN Ret(w, FALSE)
    ELSE IF w.m_pausePending THEN Ret(w, FALSE)
    ELSE IF e.setFail THEN Ret(w, FALSE)
    ELSE Ret([gstSetState(w, "PAUSED", FALSE)
                 EXCEPT !.m_pausePending = TRUE], TRUE)

handleResume(w, id, e) ==
    IF ~validateSourceAndId(w, id) THEN Ret(w, FALSE)
    ELSE IF e.getFail THEN Ret(w, FALSE)
    ELSE IF w.gstState = "PLAYING" THEN Ret(w, FALSE)
    ELSE IF w.gstState # "PAUSED" THEN Ret(w, FALSE)
    ELSE IF w.m_resumePending THEN Ret(w, FALSE)
    ELSE IF e.setFail THEN Ret(w, FALSE)
    ELSE Ret([gstSetState(w, "PLAYING", FALSE)
                 EXCEPT !.m_resumePending = TRUE,
                        !.m_pauseImmediately = FALSE], TRUE)

\* handleGetOffset with the test of the state-query answer left out, so
\* that a position is reported while a state change is under way: the
\* variant GetOffsetResult tells from handleGetOffset.
handleGetOffsetAnyAnswer(w, id, e) ==
    IF ~validateSourceAndId(w, id) THEN Ret(w, MEDIA_PLAYER_INVALID_OFFSET)
    ELSE IF w.gstState # "PAUSED" /\ w.gstState # "PLAYING"
    THEN Ret(w, MEDIA_PLAYER_INVALID_OFFSET)
    ELSE IF e.posFail THEN Ret(w, MEDIA_PLAYER_INVALID_OFFSET)
    ELSE Ret(w, e.pos \div NanosPerMilli)

\* gst_element_get_state with a zero timeout answers ASYNC while the
\* pipeline is still on its way to the requested state.
handleGetOffset(w, id, e) ==
    IF ~validateSourceAndId(w, id) THEN Ret(w, MEDIA_PLAYER_INVALID_OFFSET)
    ELSE IF e.getFail THEN Ret(w, MEDIA_PLAYER_INVALID_OFFSET)
    ELSE IF w.gstState # w.gstTarget THEN Ret(w, MEDIA_PLAYER_INVALID_OFFSET)
    ELSE IF w.gstState # "PAUSED" /\ w.gstState # "PLAYING"
    THEN Ret(w, MEDIA_PLAYER_INVALID_OFFSET)
    ELSE IF e.posFail THEN Ret(w, MEDIA_PLAYER_INVALID_OFFSET)
    ELSE Ret(w, e.pos \div NanosPerMilli)

handleSetOffset(w, id, offset) ==
    IF ~validateSourceAndId(w, id) THEN Ret(w, FALSE)
    ELSE Ret([w EXCEPT !.seekPoint = offset, !.seekPointSet = TRUE], TRUE)

handleSetObserver(w, observer) ==
    [w EXCEPT !.m_playerObserver = observer, !.sets = @ + 1]

\* ------------------------------------------------------------------ volume
\* Normalizer::create(sourceMin, sourceMax, targetMin, targetMax): a null
\* pointer (ok FALSE) when the source interval is empty or an interval is
\* inverted.
NormalizerCreate(sourceMin, sourceMax, targetMin, targetMax) ==
    [ok |-> sourceMin < sourceMax /\ targetMin <= targetMax,
     sourceMin |-> sourceMin, sourceMax |-> sourceMax,
     targetMin |-> targetMin, targetMax |-> targetMax]

\* normalize(x), x and the result in thousandths:
\* targetMin + (x - sourceMin) * (targetMax - targetMin) / (sourceMax - sourceMin).
normalize(n, x) ==
    n.targetMin * Milli
        + ((x - n.sourceMin * Milli) * (n.targetMax - n.targetMin))
              \div (n.sourceMax - n.sourceMin)

\* std::round of a gdouble kept in thousandths: to the nearest integer,
\* halves away from zero.
round(x) ==
    IF x >= 0 THEN (x + Milli \div 2) \div Milli
    ELSE 0 - ((0 - x + Milli \div 2) \div Milli)

\* m_pipeline.volume is set by a successful init() and never cleared.
handleSetVolume(w, volume) ==
    LET toGstVolume == NormalizerCreate(AVS_SET_VOLUME_MIN, AVS_SET_VOLUME_MAX,
                                        GST_SET_VOLUME_MIN, GST_SET_VOLUME_MAX)
    IN IF ~toGstVolume.ok THEN Ret(w, FALSE)
       ELSE Ret([w EXCEPT !.gstVolume = normalize(toGstVolume, volume * Milli)],
                TRUE)

\* handleAdjustVolume writing the sum back as it is: the variant
\* AdjustVolumeClamps tells from handleAdjustVolume.
handleAdjustVolumeUncapped(w, delta) ==
    LET toGstDeltaVolume ==
            NormalizerCreate(AVS_ADJUST_VOLUME_MIN, AVS_ADJUST_VOLUME_MAX,
                             GST_ADJUST_VOLUME_MIN, GST_ADJUST_VOLUME_MAX)
    IN IF ~toGstDeltaVolume.ok THEN Ret(w, FALSE)
       ELSE Ret([w EXCEPT !.gstVolume =
                     w.gstVolume + normalize(toGstDeltaVolume, delta * Milli)],
                TRUE)

handleAdjustVolume(w, delta) ==
    LET toGstDeltaVolume ==
            NormalizerCreate(AVS_ADJUST_VOLUME_MIN, AVS_ADJUST_VOLUME_MAX,
                             GST_ADJUST_VOLUME_MIN, GST_ADJUST_VOLUME_MAX)
    IN IF ~toGstDeltaVolume.ok THEN Ret(w, FALSE)
       ELSE LET sum == w.gstVolume + normalize(toGstDeltaVolume, delta * Milli)
                capped == Min(sum, GST_SET_VOLUME_MAX * Milli)
                gstVolume1 == IF capped < GST_SET_VOLUME_MIN * Milli
                              THEN GST_SET_VOLUME_MIN * Milli ELSE capped
            IN Ret([w EXCEPT !.gstVolume = gstVolume1], TRUE)

handleSetMute(w, mute) == Ret([w EXCEPT !.gstMute = mute], TRUE)

\* The answer is the settings the caller's pointer receives, or FALSE.
handleGetSpeakerSettings(w) ==
    LET toAVSVolume == NormalizerCreate(GST_SET_VOLUME_MIN, GST_SET_VOLUME_MAX,
                                        AVS_SET_VOLUME_MIN, AVS_SET_VOLUME_MAX)
    IN IF ~toAVSVolume.ok THEN Ret(w, FALSE)
       ELSE Ret(w, [volume |-> round(normalize(toAVSVolume, w.gstVolume)),
                    mute |-> w.gstMute])

\* --------------------------------------------------------------- setSource
\* createFail: <Kind>Source::create returns nullptr; connectFail:
\* g_signal_connect returns 0.
SrcOk == [createFail |-> FALSE, connectFail |-> FALSE]
SrcEnv ==
    {SrcOk, [SrcOk EXCEPT !.createFail = TRUE], [SrcOk EXCEPT !.connectFail = TRUE]}

\* <Kind>Source::create(this, ...): the new adapter puts its source element
\* and its decoder into the pipeline through setAppSrc and setDecoder.
createSource(w) ==
    [w EXCEPT !.nAdapters = @ + 1, !.appsrc = w.nAdapters + 1,
              !.decoder = w.nAdapters + 1]

\* handleSetIStreamSource building the new source over the old one, which
\* it does not tear down: the variant NoMessageOutlivesItsSource tells from
\* handleSetIStreamSource.
handleSetIStreamSourceOverOld(w, e) ==
    IF e.createFail THEN Ret(w, ERROR_SOURCE_ID)
    ELSE LET w2 == createSource(w)
         IN IF e.connectFail THEN Ret(w2, ERROR_SOURCE_ID)
            ELSE [w2 EXCEPT !.m_source = w2.nAdapters,
                            !.g_id = @ + 1,
                            !.m_currentId = w2.g_id + 1,
                            !.returned = Append(@, w2.g_id + 1),
                            !.ret = w2.g_id + 1, !.sets = @ + 1]

handleSetIStreamSource(w, e) ==
    LET w1 == tearDownTransientPipelineElements(w)
    IN IF e.createFail THEN Ret(w1, ERROR_SOURCE_ID)
       ELSE LET w2 == createSource(w1)
            IN IF e.connectFail THEN Ret(w2, ERROR_SOURCE_ID)
               ELSE [w2 EXCEPT !.m_source = w2.nAdapters,
                               !.g_id = @ + 1,
                               !.m_currentId = w2.g_id + 1,
                               !.returned = Append(@, w2.g_id + 1),
                               !.ret = w2.g_id + 1, !.sets = @ + 1]

\* handleSetAttachmentReaderSource reporting a failed construction to the
\* observer: the variant FailedSetSourceCallbacks tells from it.
handleSetAttachmentReaderSourceReporting(w, e) ==
    LET w1 == tearDownTransientPipelineElements(w)
    IN IF e.createFail THEN Ret(sendPlaybackError(w1), ERROR_SOURCE_ID)
       ELSE LET w2 == createSource(w1)
            IN IF e.connectFail THEN Ret(sendPlaybackError(w2), ERROR_SOURCE_ID)
               ELSE [w2 EXCEPT !.m_source = w2.nAdapters,
                               !.g_id = @ + 1,
                               !.m_currentId = w2.g_id + 1,
                               !.returned = Append(@, w2.g_id + 1),
                               !.ret = w2.g_id + 1, !.sets = @ + 1]

handleSetAttachmentReaderSource(w, e) ==
    LET w1 == tearDownTransientPipelineElements(w)
    IN IF e.createFail THEN Ret(w1, ERROR_SOURCE_ID)
       ELSE LET w2 == createSource(w1)
            IN IF e.connectFail THEN Ret(w2, ERROR_SOURCE_ID)
               ELSE [w2 EXCEPT !.m_source = w2.nAdapters,
                               !.g_id = @ + 1,
                               !.m_currentId = w2.g_id + 1,
                               !.returned = Append(@, w2.g_id + 1),
                               !.ret = w2.g_id + 1, !.sets = @ + 1]

\* ------------------------------------------------------------- bus handler
\* What the engine and the adapter answer during handleBusMessage.
\* eosFail: m_source->handleEndOfStream() returns false; more:
\* m_source->hasAdditionalData(); nullFail: set_state(NULL) in the EOS
\* cycle answers FAILURE; setFail: set_state(PAUSED or PLAYING) answers
\* FAILURE; buffering: queryBufferingStatus succeeds and reports busy;
\* seekQueryFail: queryIsSeekable fails; seekable: its answer; seekFail:
\* gst_element_seek_simple answers FALSE.
BusOk ==
    [eosFail |-> FALSE, more |-> FALSE, nullFail |-> FALSE, setFail |-> FALSE,
     buffering |-> FALSE, seekQueryFail |-> FALSE, seekable |-> FALSE,
     seekFail |-> FALSE]
\* The answers a message of the given type can meet: those its branch of
\* handleBusMessage reads.
BusEnv(type) ==
    CASE type = "EOS" ->
           {BusOk, [BusOk EXCEPT !.eosFail = TRUE], [BusOk EXCEPT !.more = TRUE],
            [BusOk EXCEPT !.more = TRUE, !.nullFail = TRUE],
            [BusOk EXCEPT !.more = TRUE, !.setFail = TRUE],
            [BusOk EXCEPT !.more = TRUE, !.nullFail = TRUE, !.setFail = TRUE]}
      [] type = "STATE_CHANGED" ->
           {BusOk, [BusOk EXCEPT !.buffering = TRUE], [BusOk EXCEPT !.setFail = TRUE]}
      [] type = "BUFFERING" ->
           {BusOk, [BusOk EXCEPT !.seekable = TRUE],
            [BusOk EXCEPT !.seekable = TRUE, !.seekFail = TRUE],
            [BusOk EXCEPT !.seekQueryFail = TRUE], [BusOk EXCEPT !.setFail = TRUE]}
      [] OTHER -> {BusOk}

\* A member call through the null m_source: the process aborts.
Abort(w) == [w EXCEPT !.crashed = TRUE]

\* seek() asking for nothing: the variant SeekThenStarted tells from seek.
seekDropped(w, fail) ==
    [w EXCEPT !.seekPointSet = FALSE, !.seekPoint = 0, !.isSeekable = FALSE]

\* seek(): the seek point and the seekable flag are cleared whatever
\* gst_element_seek_simple answers.  A seek the engine accepts is a flushing
\* one: the buffer is emptied and fills again from the seek point.
seek(w, fail) ==
    LET w1 == IF ~w.isSeekable \/ ~w.seekPointSet \/ fail THEN w
              ELSE [w EXCEPT !.gstFlow = [filling |-> TRUE, pos |-> w.seekPoint]]
    IN [w1 EXCEPT !.seekPointSet = FALSE, !.seekPoint = 0, !.isSeekable = FALSE]

onEOS(w, e) ==
    IF w.m_source = NoSource THEN Abort(w)
    ELSE LET w0 == [w EXCEPT !.calls = Append(@, "handleEndOfStream")]
             w1 == IF e.eosFail THEN sendPlaybackError(w0) ELSE w0
         IN IF w1.m_source = NoSource THEN Abort(w1)
            ELSE LET w2 == [w1 EXCEPT !.calls = Append(@, "hasAdditionalData")]
                 IN IF e.more
                    THEN LET w3 == IF e.nullFail THEN sendPlaybackError(w2)
                                   ELSE gstSetState(w2, "NULL", FALSE)
                         IN IF e.setFail THEN sendPlaybackError(w3)
                            ELSE gstSetState(w3, "PLAYING", FALSE)
                    ELSE sendPlaybackFinished(w2)

onStateChanged(w, msg, e) ==
    IF msg.new = "PAUSED" /\ w.m_pauseImmediately
    THEN sendPlaybackPaused(
             IF w.m_playPending THEN sendPlaybackStarted(w)
             ELSE IF w.m_resumePending THEN sendPlaybackResumed(w)
             ELSE w)
    ELSE IF msg.new = "PLAYING"
    THEN IF ~w.m_playbackStartedSent THEN sendPlaybackStarted(w)
         ELSE IF w.m_isBufferUnderrun
         THEN [sendBufferRefilled(w) EXCEPT !.m_isBufferUnderrun = FALSE]
         ELSE IF w.m_isPaused
         THEN [sendPlaybackResumed(w) EXCEPT !.m_isPaused = FALSE]
         ELSE w
    ELSE IF msg.new = "PAUSED" /\ msg.old = "READY" /\ msg.pending = VOID_PENDING
    THEN IF ~e.buffering THEN gstSetState(w, "PLAYING", e.setFail)
         ELSE w
    ELSE IF msg.new = "PAUSED" /\ msg.old = "PLAYING"
    THEN IF w.m_isBufferUnderrun THEN sendBufferUnderrun(w)
         ELSE IF ~w.m_isPaused
         THEN [sendPlaybackPaused(w) EXCEPT !.m_isPaused = TRUE]
         ELSE w
    ELSE IF msg.new = "NULL" /\ msg.old = "READY"
    THEN sendPlaybackStopped(w)
    ELSE w

\* onBuffering without the note that an underrun has begun: the variant
\* UnderrunCycle tells from onBuffering.
onBufferingUnnoted(w, msg, e) ==
    IF msg.percent < Full
    THEN IF e.setFail THEN sendPlaybackError(w)
         ELSE gstSetState(w, "PAUSED", FALSE)
    ELSE IF w.m_pauseImmediately THEN w
    ELSE LET w1 == IF e.seekQueryFail THEN w
                   ELSE [w EXCEPT !.isSeekable = e.seekable]
         IN IF w1.isSeekable /\ w1.seekPointSet THEN seek(w1, e.seekFail)
            ELSE IF e.setFail THEN sendPlaybackError(w1)
            ELSE gstSetState(w1, "PLAYING", FALSE)

\* onBuffering with no regard for a pause that raced the play: the variant
\* BufferingFullOutcome tells from onBuffering.
onBufferingOverPause(w, msg, e) ==
    IF msg.percent < Full
    THEN IF e.setFail THEN sendPlaybackError(w)
         ELSE LET w1 == gstSetState(w, "PAUSED", FALSE)
              IN IF w1.m_playbackStartedSent
                 THEN [w1 EXCEPT !.m_isBufferUnderrun = TRUE]
                 ELSE w1
    ELSE LET w1 == IF e.seekQueryFail THEN w
                   ELSE [w EXCEPT !.isSeekable = e.seekable]
         IN IF w1.isSeekable /\ w1.seekPointSet THEN seek(w1, e.seekFail)
            ELSE IF e.setFail THEN sendPlaybackError(w1)
            ELSE gstSetState(w1, "PLAYING", FALSE)

onBuffering(w, msg, e) ==
    IF msg.percent < Full
    THEN IF e.setFail THEN sendPlaybackError(w)
         ELSE LET w1 == gstSetState(w, "PAUSED", FALSE)
              IN IF w1.m_playbackStartedSent
                 THEN [w1 EXCEPT !.m_isBufferUnderrun = TRUE]
                 ELSE w1
    ELSE IF w.m_pauseImmediately THEN w
    ELSE LET w1 == IF e.seekQueryFail THEN w
                   ELSE [w EXCEPT !.isSeekable = e.seekable]
         IN IF w1.isSeekable /\ w1.seekPointSet THEN seek(w1, e.seekFail)
            ELSE IF e.setFail THEN sendPlaybackError(w1)
            ELSE gstSetState(w1, "PLAYING", FALSE)

handleBusMessage(w, msg, e) ==
    CASE msg.type = "EOS" -> onEOS(w, e)
      [] msg.type = "ERROR" ->
           sendPlaybackError(IF w.m_source = NoSource THEN w
                             ELSE [w EXCEPT !.calls = Append(@, "isPlaybackRemote")])
      [] msg.type = "STATE_CHANGED" -> onStateChanged(w, msg, e)
      [] msg.type = "BUFFERING" -> onBuffering(w, msg, e)
      [] msg.type = "TAG" -> sendStreamTagsToObserver(w)
      [] OTHER -> w

\* -------------------------------------------------------------------- Init
\* The state after MediaPlayer::create: the constructor's initialisers and
\* a successful init().
ThreadIdle == [pc |-> "none", src |-> NoSource, tmp |-> 0]

Init ==
    /\ g_id = 0
    /\ m_source = NoSource
    /\ m_currentId = ERROR_SOURCE_ID
    /\ m_playbackStartedSent = FALSE
    /\ m_playbackFinishedSent = FALSE
    /\ m_isPaused = FALSE
    /\ m_isBufferUnderrun = FALSE
    /\ m_playPending = FALSE
    /\ m_pausePending = FALSE
    /\ m_resumePending = FALSE
    /\ m_pauseImmediately = FALSE
    /\ m_playerObserver = FALSE
    /\ appsrc = NoElement
    /\ decoder = NoElement
    /\ seekPoint = 0
    /\ seekPointSet = FALSE
    /\ isSeekable = FALSE
    /\ gstState = "NULL"
    /\ gstTarget = "NULL"
    /\ bus = <<>>
    /\ autoFlush = TRUE
    /\ gstFlow = NoFlow
    /\ gstVolume = GST_SET_VOLUME_MAX * Milli
    /\ gstMute = FALSE
    /\ hook = "none"
    /\ nAdapters = 0
    /\ shut = {}
    /\ emitted = <<>>
    /\ delivered = {}
    /\ open = [id \in Ids |-> "none"]
    /\ returned = <<>>
    /\ thr = ThreadIdle
    /\ joinable = FALSE
    /\ urlPosted = 0
    /\ idle = <<>>
    /\ dtor = "none"
    /\ crashed = FALSE

\* The preparation thread, the closures waiting for the dispatcher and the
\* destructor.
thrVars == <<thr, joinable, urlPosted, idle, dtor>>

\* A step that calls no observer callback.
Silent == emitted' = <<>> /\ UNCHANGED <<delivered, open>>

\* A command of a caller, from its posting to its completion: the player is
\* alive, the dispatcher runs the closure and the members become those of w.
Dispatch(w) ==
    /\ dtor = "none"
    /\ Commit(w)
    /\ UNCHANGED thrVars

\* ---------------------------------------------------------------- commands
\* The answers each command can meet: those its handler reads.
StateEnv ==
    {CmdOk, [CmdOk EXCEPT !.getFail = TRUE], [CmdOk EXCEPT !.setFail = TRUE]}
PlayEnv == StateEnv \cup {[CmdOk EXCEPT !.useBuffering = TRUE]}
OffsetEnv ==
    {[CmdOk EXCEPT !.getFail = TRUE], [CmdOk EXCEPT !.posFail = TRUE]}
    \cup {[CmdOk EXCEPT !.pos = p] : p \in Positions}

\* play(id): the caller returns ERROR (false) when m_source is null,
\* otherwise it calls m_source->preprocess() and posts handlePlay.
play(w, id, e) ==
    IF w.m_source = NoSource THEN [w EXCEPT !.ret = FALSE]
    ELSE handlePlay([w EXCEPT !.calls = Append(@, "preprocess")], id, e)

Play(id) ==
    /\ ~crashed
    /\ \E e \in PlayEnv : Dispatch(play(World, id, e))

Stop(id) ==
    /\ ~crashed
    /\ \E e \in StateEnv : Dispatch(handleStop(World, id, e))

Pause(id) ==
    /\ ~crashed
    /\ \E e \in StateEnv : Dispatch(handlePause(World, id, e))

Resume(id) ==
    /\ ~crashed
    /\ \E e \in StateEnv : Dispatch(handleResume(World, id, e))

GetOffset(id) ==
    /\ ~crashed
    /\ \E e \in OffsetEnv : Dispatch(handleGetOffset(World, id, e))

SetOffset(id) ==
    /\ ~crashed
    /\ \E offset \in Offsets : Dispatch(handleSetOffset(World, id, offset))

SetObserver(observer) ==
    /\ ~crashed
    /\ Dispatch(handleSetObserver(World, observer))

SetVolume(volume) ==
    /\ ~crashed
    /\ Dispatch(handleSetVolume(World, volume))

AdjustVolume(delta) ==
    /\ ~crashed
    /\ Dispatch(handleAdjustVolume(World, delta))

SetMute(mute) ==
    /\ ~crashed
    /\ Dispatch(handleSetMute(World, mute))

\* A successful construction needs an adapter and an id within the bounds.
WithinBounds(w) == w.nAdapters <= MaxAdapters /\ w.g_id <= MaxId

SetSourceStream ==
    /\ ~crashed
    /\ \E e \in SrcEnv :
         LET w == handleSetIStreamSource(World, e)
         IN /\ WithinBounds(w)
            /\ Dispatch(w)

SetSourceReader ==
    /\ ~crashed
    /\ \E e \in SrcEnv :
         LET w == handleSetAttachmentReaderSource(World, e)
         IN /\ WithinBounds(w)
            /\ Dispatch(w)

\* ------------------------------------------------------------ URL setSource
\* setSource(url) on the caller: join the previous preparation thread if it
\* is joinable (the caller waits until that thread has returned), then post
\* the closure.
SetSourceUrlCall ==
    /\ Silent
    /\ ~crashed
    /\ dtor = "none"
    /\ urlPosted < MaxUrlPosted
    /\ IF joinable
       THEN thr.pc = "done" /\ joinable' = FALSE /\ thr' = ThreadIdle
       ELSE UNCHANGED <<joinable, thr>>
    /\ urlPosted' = urlPosted + 1
    /\ UNCHANGED <<g_id, ctl, eng, adp, returned, idle, dtor, crashed>>

\* The posted closure on the dispatcher: tear down, then start the thread.
\* Assigning to m_setSourceThread while it is joinable calls std::terminate.
SetSourceUrlCallback ==
    /\ ~crashed
    /\ dtor # "done"
    /\ urlPosted > 0
    /\ urlPosted' = urlPosted - 1
    /\ UNCHANGED <<idle, dtor>>
    /\ LET w == tearDownTransientPipelineElements(World)
       IN IF joinable
          THEN Commit(Abort(w)) /\ UNCHANGED <<thr, joinable>>
          ELSE /\ Commit(w)
               /\ thr' = [pc |-> "create", src |-> NoSource, tmp |-> 0]
               /\ joinable' = TRUE

\* handleSetSource on the preparation thread, one action per access to the
\* members it shares with the dispatcher.
\* promise->set_value(ERROR_SOURCE_ID); return;
ThreadDone == thr' = [pc |-> "done", src |-> NoSource, tmp |-> 0]

\* UrlSource::create and g_signal_connect.
handleSetSource_create ==
    /\ Silent
    /\ ~crashed
    /\ thr.pc = "create"
    /\ \E e \in SrcEnv :
         /\ IF e.createFail
            THEN /\ ThreadDone
                 /\ UNCHANGED <<appsrc, decoder, nAdapters>>
            ELSE /\ nAdapters < MaxAdapters
                 /\ nAdapters' = nAdapters + 1
                 /\ appsrc' = nAdapters + 1
                 /\ decoder' = nAdapters + 1
                 /\ IF e.connectFail
                    THEN ThreadDone
                    ELSE thr' = [thr EXCEPT !.pc = "store",
                                            !.src = nAdapters + 1]
    /\ UNCHANGED <<g_id, m_source, m_currentId, m_playbackStartedSent,
                   m_playbackFinishedSent, m_isPaused, m_isBufferUnderrun,
                   m_playPending, m_pausePending, m_resumePending,
                   m_pauseImmediately, m_playerObserver, seekPoint,
                   seekPointSet, isSeekable, eng, shut,
                   returned, joinable, urlPosted, idle, dtor, crashed>>

\* m_source = source;
handleSetSource_store ==
    /\ Silent
    /\ ~crashed
    /\ thr.pc = "store"
    /\ m_source' = thr.src
    /\ thr' = [thr EXCEPT !.pc = "load"]
    /\ UNCHANGED <<g_id, m_currentId, m_playbackStartedSent,
                   m_playbackFinishedSent, m_isPaused, m_isBufferUnderrun,
                   m_playPending, m_pausePending, m_resumePending,
                   m_pauseImmediately, m_playerObserver, appsrc, decoder,
                   seekPoint, seekPointSet, isSeekable, eng, adp,
                   returned, joinable, urlPosted, idle, dtor, crashed>>

\* ++g_id, the read: g_id is a plain static, the increment is a read and a
\* write with the dispatcher free to run in between.
handleSetSource_load ==
    /\ Silent
    /\ ~crashed
    /\ thr.pc = "load"
    /\ g_id < MaxId
    /\ thr' = [thr EXCEPT !.pc = "mint", !.tmp = g_id + 1]
    /\ UNCHANGED <<g_id, ctl, eng, adp, returned, joinable, urlPosted,
                   idle, dtor, crashed>>

\* ++g_id, the write; m_currentId = the result; promise->set_value.
handleSetSource_mint ==
    /\ Silent
    /\ ~crashed
    /\ thr.pc = "mint"
    /\ g_id' = thr.tmp
    /\ m_currentId' = thr.tmp
    /\ returned' = Append(returned, thr.tmp)
    /\ thr' = [pc |-> "done", src |-> NoSource, tmp |-> 0]
    /\ UNCHANGED <<m_source, m_playbackStartedSent,
                   m_playbackFinishedSent, m_isPaused, m_isBufferUnderrun,
                   m_playPending, m_pausePending, m_resumePending,
                   m_pauseImmediately, m_playerObserver, appsrc, decoder,
                   seekPoint, seekPointSet, isSeekable, eng, adp,
                   joinable, urlPosted, idle, dtor, crashed>>

\* ------------------------------------------------------------------- engine
Others(q) == {i \in 1..Len(q) : q[i].type # "STATE_CHANGED"}

Post(msg) ==
    /\ ~crashed
    /\ Len(bus) < MaxBus
    /\ msg.type # "STATE_CHANGED" => Cardinality(Others(bus)) < MaxOther
    /\ bus' = Append(bus, msg)

\* The pipeline moves one state towards the requested one and posts the
\* state-changed message of the move.  From READY to PAUSED the data starts
\* to flow and the buffer to fill.
EngineTransition ==
    /\ Silent
    /\ gstState # gstTarget
    /\ LET new == IF Rank(gstState) < Rank(gstTarget)
                  THEN GstStates[Rank(gstState) + 1]
                  ELSE GstStates[Rank(gstState) - 1]
       IN /\ Post(StateChanged(gstState, new,
                    IF new = gstTarget THEN VOID_PENDING ELSE gstTarget))
          /\ gstState' = new
          /\ gstFlow' = IF gstState = "READY" /\ new = "PAUSED"
                        THEN [filling |-> TRUE, pos |-> 0] ELSE gstFlow
    /\ UNCHANGED <<g_id, ctl, gstTarget, autoFlush, gstVolume, gstMute, hook, adp,
                   returned, thrVars, crashed>>

EngineBuffering ==
    /\ Silent
    /\ gstState \in {"PAUSED", "PLAYING"}
    /\ \E p \in {BelowFull, Full} : Post(Buffering(p))
    /\ UNCHANGED <<g_id, ctl, gstState, gstTarget, autoFlush, gstFlow,
                   gstVolume, gstMute, hook, adp, returned, thrVars, crashed>>

\* The buffer that was filling is full: the engine posts BUFFERING 100,
\* once for the preroll and once after every flushing seek.
EngineFull ==
    /\ Silent
    /\ gstState \in {"PAUSED", "PLAYING"}
    /\ gstFlow.filling
    /\ Post(Buffering(Full))
    /\ gstFlow' = [gstFlow EXCEPT !.filling = FALSE]
    /\ UNCHANGED <<g_id, ctl, gstState, gstTarget, autoFlush, gstVolume, gstMute,
                   hook, adp, returned, thrVars, crashed>>

EngineEOS ==
    /\ Silent
    /\ gstState = "PLAYING"
    /\ Post(Plain("EOS"))
    /\ UNCHANGED <<g_id, ctl, gstState, gstTarget, autoFlush, gstFlow,
                   gstVolume, gstMute, hook, adp, returned, thrVars, crashed>>

EngineTag ==
    /\ Silent
    /\ gstState \in {"PAUSED", "PLAYING"}
    /\ Post(Plain("TAG"))
    /\ UNCHANGED <<g_id, ctl, gstState, gstTarget, autoFlush, gstFlow,
                   gstVolume, gstMute, hook, adp, returned, thrVars, crashed>>

EngineError ==
    /\ Silent
    /\ gstState # "NULL"
    /\ Post(Plain("ERROR"))
    /\ UNCHANGED <<g_id, ctl, gstState, gstTarget, autoFlush, gstFlow,
                   gstVolume, gstMute, hook, adp, returned, thrVars, crashed>>

\* A posted closure carries, beside its command, the number of messages
\* that were on the bus when it was posted: the messages that arrived
\* before it.  Once the dispatcher has handled a message or a closure, the
\* messages still ahead of a waiting closure are those of them still on the
\* bus.
StillAhead(q, gone, w) ==
    [i \in DOMAIN q |->
        [q[i] EXCEPT !.ahead = Min(IF @ > gone THEN @ - gone ELSE 0, Len(w.bus))]]

\* onBusMessage: the dispatcher takes the oldest message off the bus.  The
\* bus watch is a source of G_PRIORITY_DEFAULT: it is dispatched whenever a
\* message waits, whatever closures are posted.
BusMessage ==
    /\ ~crashed
    /\ dtor # "done"
    /\ bus # <<>>
    /\ \E e \in BusEnv(Head(bus).type) :
         LET w == handleBusMessage([World EXCEPT !.bus = Tail(bus)], Head(bus), e)
         IN /\ Commit(w)
            /\ idle' = StillAhead(idle, 1, w)
    /\ UNCHANGED <<thr, joinable, urlPosted, dtor>>

\* queueCallback on a caller's thread: g_idle_add appends the closure of a
\* command to the idle sources of the main context.
Commands == {"play", "pause", "resume", "stop"}

PostClosure(cmd, id) ==
    /\ Silent
    /\ ~crashed
    /\ dtor = "none"
    /\ Len(idle) < MaxIdle
    /\ IF cmd = "play" THEN m_source # NoSource ELSE TRUE
    /\ idle' = Append(idle, [cmd |-> cmd, id |-> id, ahead |-> Len(bus)])
    /\ UNCHANGED <<g_id, ctl, eng, adp, returned, thr, joinable, urlPosted,
                   dtor, crashed>>

handleCommand(w, c, e) ==
    CASE c.cmd = "play" -> handlePlay(w, c.id, e)
      [] c.cmd = "pause" -> handlePause(w, c.id, e)
      [] c.cmd = "resume" -> handleResume(w, c.id, e)
      [] OTHER -> handleStop(w, c.id, e)

\* onCallback: the dispatcher runs the oldest posted closure.  An idle
\* source is of G_PRIORITY_DEFAULT_IDLE: the main loop dispatches it only in
\* an iteration that finds no message waiting on the bus.
RunClosure ==
    /\ ~crashed
    /\ dtor # "done"
    /\ idle # <<>>
    /\ bus = <<>>
    /\ LET w == handleCommand(World, Head(idle), CmdOk)
       IN /\ Commit(w)
          /\ idle' = StillAhead(Tail(idle), 0, w)
    /\ UNCHANGED <<thr, joinable, urlPosted, dtor>>

\* onPadAdded on a streaming thread of the engine, once the decoder has got
\* data and adds its source pad: the thread posts the closure of
\* handlePadAdded with queueCallback and waits for its promise.
onPadAdded ==
    /\ Silent
    /\ ~crashed
    /\ hook = "none"
    /\ decoder # NoElement
    /\ gstState \in {"PAUSED", "PLAYING"}
    /\ hook' = "waiting"
    /\ UNCHANGED <<g_id, ctl, gstState, gstTarget, bus, autoFlush, gstFlow,
                   gstVolume, gstMute, adp, returned, thrVars, crashed>>

\* handlePadAdded on the dispatcher: the decoder is linked to the converter
\* and the promise fulfilled, which lets the streaming thread go on.
handlePadAdded ==
    /\ Silent
    /\ ~crashed
    /\ dtor # "done"
    /\ hook = "waiting"
    /\ bus = <<>>
    /\ hook' = "linked"
    /\ UNCHANGED <<g_id, ctl, gstState, gstTarget, bus, autoFlush, gstFlow,
                   gstVolume, gstMute, adp, returned, thrVars, crashed>>

\* ~MediaPlayer on the thread that drops the last reference.  Its first
\* statements set the pipeline to NULL and shut the adapter down; the
\* callbacks of the observer are not called.
Destroy_stop ==
    /\ ~crashed
    /\ dtor = "none"
    /\ hook # "waiting"
    /\ Commit(shutdownSource(gstSetState(World, "NULL", FALSE)))
    /\ dtor' = "join"
    /\ UNCHANGED <<thr, joinable, urlPosted, idle>>

\* It then joins the preparation thread if that is joinable (it waits until
\* the thread has returned), and calls g_main_loop_quit and joins the main
\* loop thread: g_main_loop_run returns once the iteration under way is over,
\* and the sources still attached to the context are dispatched no more.
Destroy_quit ==
    /\ Silent
    /\ ~crashed
    /\ dtor = "join"
    /\ IF joinable
       THEN thr.pc = "done" /\ joinable' = FALSE /\ thr' = ThreadIdle
       ELSE UNCHANGED <<joinable, thr>>
    /\ dtor' = "done"
    /\ UNCHANGED <<g_id, ctl, eng, adp, returned, urlPosted, idle, crashed>>

\* ----------------------------------------------------------- specifications
\* Every operation of the controller, the preparation thread and the engine.
Next ==
    \/ \E id \in Ids : Play(id)
    \/ \E id \in Ids : Stop(id)
    \/ \E id \in Ids : Pause(id)
    \/ \E id \in Ids : Resume(id)
    \/ \E id \in Ids : GetOffset(id)
    \/ \E id \in Ids : SetOffset(id)
    \/ \E observer \in BOOLEAN : SetObserver(observer)
    \/ \E volume \in Volumes : SetVolume(volume)
    \/ \E delta \in Deltas : AdjustVolume(delta)
    \/ \E mute \in BOOLEAN : SetMute(mute)
    \/ SetSourceStream
    \/ SetSourceReader
    \/ SetSourceUrlCall
    \/ SetSourceUrlCallback
    \/ handleSetSource_create
    \/ handleSetSource_store
    \/ handleSetSource_load
    \/ handleSetSource_mint
    \/ EngineTransition
    \/ EngineBuffering
    \/ EngineEOS
    \/ EngineTag
    \/ EngineError
    \/ BusMessage
    \/ Destroy_stop
    \/ Destroy_quit
    \/ onPadAdded
    \/ handlePadAdded

Spec == Init /\ [][Next]_vars

\* One source played: a client that attaches its observer, sets one stream
\* source and then drives it with the playback commands while the engine
\* runs and posts on the bus.
PlaybackNext ==
    \/ \E id \in Ids : Play(id)
    \/ \E id \in Ids : Stop(id)
    \/ \E id \in Ids : Pause(id)
    \/ \E id \in Ids : Resume(id)
    \/ \E id \in Ids : GetOffset(id)
    \/ SetObserver(TRUE)
    \/ (g_id = 0 /\ SetSourceStream)
    \/ EngineTransition
    \/ EngineBuffering
    \/ EngineEOS
    \/ EngineTag
    \/ EngineError
    \/ BusMessage

PlaybackSpec == Init /\ [][PlaybackNext]_vars

\* Sources replaced: a client that sets sources of the three kinds one after
\* the other and calls play, with the preparation thread running beside the
\* dispatcher; the engine is not given time to change state.
SourceNext ==
    \/ \E id \in Ids : Play(id)
    \/ \E observer \in BOOLEAN : SetObserver(observer)
    \/ SetSourceStream
    \/ SetSourceReader
    \/ SetSourceUrlCall
    \/ SetSourceUrlCallback
    \/ handleSetSource_create
    \/ handleSetSource_store
    \/ handleSetSource_load
    \/ handleSetSource_mint

SourceSpec == Init /\ [][SourceNext]_vars

\* The dispatcher's two sources: a client that attaches its observer, sets
\* one stream source and then posts play, pause, resume and stop for it as
\* closures, which the main loop runs between the bus messages of the
\* engine's state changes.
DispatchNext ==
    \/ SetObserver(TRUE)
    \/ (g_id = 0 /\ SetSourceStream)
    \/ \E cmd \in Commands : PostClosure(cmd, 1)
    \/ RunClosure
    \/ EngineTransition
    \/ BusMessage

DispatchSpec == Init /\ [][DispatchNext]_vars

\* The player destroyed: the client of DispatchSpec, and the owner of the
\* player destroying it at any moment.
DestroyNext ==
    \/ SetObserver(TRUE)
    \/ (g_id = 0 /\ SetSourceStream)
    \/ \E cmd \in Commands : PostClosure(cmd, 1)
    \/ RunClosure
    \/ EngineTransition
    \/ BusMessage
    \/ Destroy_stop
    \/ Destroy_quit

DestroySpec == Init /\ [][DestroyNext]_vars

\* A source replaced while the engine works for the one before: a client
\* that sets stream sources one after the other and plays and stops them,
\* and the engine changing state, buffering, ending the stream and failing.
ReplaceNext ==
    \/ SetObserver(TRUE)
    \/ SetSourceStream
    \/ \E id \in Ids : Play(id)
    \/ \E id \in Ids : Stop(id)
    \/ EngineTransition
    \/ EngineBuffering
    \/ EngineEOS
    \/ EngineError
    \/ BusMessage

ReplaceSpec == Init /\ [][ReplaceNext]_vars

\* A pause raced by the buffer level: a client that attaches its observer,
\* sets one stream source, plays it and pauses it, while the engine changes
\* state and reports its buffer level.  The engine completes the state
\* changes asked of it and the main loop handles every message on the bus.
PauseNext ==
    \/ SetObserver(TRUE)
    \/ (g_id = 0 /\ SetSourceStream)
    \/ Play(1)
    \/ Pause(1)
    \/ EngineTransition
    \/ EngineBuffering
    \/ BusMessage

PauseLive ==
    /\ Init /\ [][PauseNext]_vars
    /\ WF_vars(EngineTransition)
    /\ WF_vars(BusMessage)

\* A paused playback resumed: the client of PauseLive, which also resumes
\* the source.
ResumeNext ==
    \/ SetObserver(TRUE)
    \/ (g_id = 0 /\ SetSourceStream)
    \/ Play(1)
    \/ Pause(1)
    \/ Resume(1)
    \/ EngineTransition
    \/ EngineBuffering
    \/ BusMessage

ResumeLive ==
    /\ Init /\ [][ResumeNext]_vars
    /\ WF_vars(EngineTransition)
    /\ WF_vars(BusMessage)

\* The decoder's pad added while the client drives the player: a client
\* that attaches its observer, sets stream sources and plays and stops
\* them, the engine changing state and ending the stream, and a streaming
\* thread of the engine in the pad-added hook.
HookNext ==
    \/ SetObserver(TRUE)
    \/ SetSourceStream
    \/ \E id \in Ids : Play(id)
    \/ \E id \in Ids : Stop(id)
    \/ EngineTransition
    \/ EngineEOS
    \/ BusMessage
    \/ onPadAdded
    \/ handlePadAdded

HookSpec == Init /\ [][HookNext]_vars

\* Seek before playback: one client thread that attaches its observer, sets
\* one URL source, sets an offset for it before it plays it, and plays it;
\* the engine changes state and reports its buffer full.  The client waits
\* in setSource until the preparation thread has set the promise.
ClientFree == urlPosted = 0 /\ thr.pc \in {"none", "done"}

SeekNext ==
    \/ SetObserver(TRUE)
    \/ (g_id = 0 /\ ClientFree /\ SetSourceUrlCall)
    \/ SetSourceUrlCallback
    \/ handleSetSource_create
    \/ handleSetSource_store
    \/ handleSetSource_load
    \/ handleSetSource_mint
    \/ (ClientFree /\ gstTarget = "NULL" /\ ~seekPointSet
            /\ \E id \in Ids : SetOffset(id))
    \/ (ClientFree /\ \E id \in Ids : Play(id))
    \/ EngineTransition
    \/ EngineFull
    \/ BusMessage

SeekSpec == Init /\ [][SeekNext]_vars

\* Buffering with an offset: a client that attaches its observer, sets one
\* stream source, sets an offset for it and plays, pauses and resumes it,
\* while the engine changes state and reports its buffer level.
BufferingNext ==
    \/ SetObserver(TRUE)
    \/ (g_id = 0 /\ SetSourceStream)
    \/ Play(1)
    \/ Pause(1)
    \/ Resume(1)
    \/ (~seekPointSet /\ SetOffset(1))
    \/ EngineTransition
    \/ EngineBuffering
    \/ BusMessage

BufferingSpec == Init /\ [][BufferingNext]_vars

\* Offsets across sources: a client that attaches its observer, sets stream
\* sources one after the other, sets an offset for the current one, plays
\* and stops it, while the engine changes state, reports its buffer full and
\* reports errors.
OffsetNext ==
    \/ SetObserver(TRUE)
    \/ SetSourceStream
    \/ \E id \in Ids : Play(id)
    \/ \E id \in Ids : Stop(id)
    \/ (~seekPointSet /\ \E id \in Ids : SetOffset(id))
    \/ EngineTransition
    \/ EngineFull
    \/ EngineError
    \/ BusMessage

OffsetSpec == Init /\ [][OffsetNext]_vars

\* The speaker: a client that sets and adjusts the volume and mutes and
\* unmutes, on a player without a source.
VolumeNext ==
    \/ \E volume \in Volumes : SetVolume(volume)
    \/ \E delta \in Deltas : AdjustVolume(delta)
    \/ \E mute \in BOOLEAN : SetMute(mute)

VolumeSpec == Init /\ [][VolumeNext]_vars

\* The main loop runs for as long as the player lives, so a message waiting
\* on the bus is handled; the engine carries out a state change it was asked
\* for and reports the buffer full once it has filled.
SeekLive ==
    /\ SeekSpec
    /\ WF_vars(BusMessage)
    /\ WF_vars(EngineTransition)
    /\ WF_vars(EngineFull)

\* -------------------------------------------------------------- properties
\* C1: every successful setSource returns an id that is not ERROR_SOURCE_ID,
\* differs from every id returned before and is greater than all of them,
\* whatever the interleaving of the dispatcher and the preparation thread.
ReturnedIdsStrictlyIncrease ==
    \A i \in 1..Len(returned) :
        /\ returned[i] # ERROR_SOURCE_ID
        /\ \A j \in 1..(i - 1) : returned[j] < returned[i]

\* C2: a command quoting an id that fails validateSourceAndId fails and
\* changes nothing: its result is the world it met, with no member changed,
\* no adapter method called and no callback emitted.
InvalidIdHasNoEffect ==
    \A id \in Ids :
        ~validateSourceAndId(World, id) =>
            /\ \A e \in PlayEnv : play(World, id, e) = Ret(World, FALSE)
            /\ \A e \in StateEnv :
                   /\ handleStop(World, id, e) = Ret(World, FALSE)
                   /\ handlePause(World, id, e) = Ret(World, FALSE)
                   /\ handleResume(World, id, e) = Ret(World, FALSE)
            /\ \A e \in OffsetEnv :
                   handleGetOffset(World, id, e)
                       = Ret(World, MEDIA_PLAYER_INVALID_OFFSET)
            /\ \A offset \in Offsets :
                   handleSetOffset(World, id, offset) = Ret(World, FALSE)

\* An adapter is attached while the controller holds it in m_source or has
\* its source element or its decoder in the pipeline.
Attached ==
    {a \in 1..nAdapters : m_source = a \/ appsrc = a \/ decoder = a}

\* C3: at most one adapter is attached at any moment, and a step that
\* stores a new adapter over a previous one has shut the previous one down
\* and removed its elements by the time the new one is stored.
OneAdapterAttached ==
    [][/\ Cardinality(Attached') <= 1
       /\ (m_source # NoSource /\ m_source' \notin {NoSource, m_source})
              => (m_source \in shut' /\ appsrc' # m_source
                  /\ decoder' # m_source)]_vars

\* The callbacks of a step are judged against what the observer had been
\* told before the step and against the earlier callbacks of the same step.
Proper(ev) == ev[2] # ERROR_SOURCE_ID
EmittedBefore(i) == {emitted'[j] : j \in 1..(i - 1)}
ToldBefore(i) == delivered \cup EmittedBefore(i)

RECURSIVE OpenFold(_, _, _)
OpenFold(o, seq, id) ==
    IF seq = <<>> THEN o
    ELSE OpenFold(IF Head(seq)[2] = id THEN OpenAfter(o, Head(seq)[1]) ELSE o,
                  Tail(seq), id)
OpenBefore(i) ==
    OpenFold(open[emitted'[i][2]], SubSeq(emitted', 1, i - 1), emitted'[i][2])

\* C4: onPlaybackStarted is delivered at most once for an id: a step never
\* delivers started for an id that has had it already.
StartedAtMostOnce ==
    [][\A i \in DOMAIN emitted' :
           (emitted'[i][1] = "started" /\ Proper(emitted'[i]))
               => emitted'[i] \notin ToldBefore(i)]_vars

\* C5: onPlaybackFinished is delivered at most once for an id, and so is
\* onPlaybackStopped.
FinishedAndStoppedAtMostOnce ==
    [][\A i \in DOMAIN emitted' :
           (emitted'[i][1] \in {"finished", "stopped"} /\ Proper(emitted'[i]))
               => emitted'[i] \notin ToldBefore(i)]_vars

\* C6: once finished, stopped or error has been delivered for an id, no
\* callback of any kind carries that id.
NothingAfterTerminal ==
    [][\A i \in DOMAIN emitted' :
           Proper(emitted'[i])
               => \A t \in Terminal : <<t, emitted'[i][2]>> \notin ToldBefore(i)]_vars

\* C7: after started has been delivered for an id, paused and underrun are
\* delivered for it only while no paused or underrun is open, resumed only
\* while a paused is open and refilled only while an underrun is open (tags
\* may come in between).
PausedResumedPaired ==
    [][\A i \in DOMAIN emitted' :
           (Proper(emitted'[i]) /\ <<"started", emitted'[i][2]>> \in ToldBefore(i))
               => /\ emitted'[i][1] \in {"paused", "underrun"}
                       => OpenBefore(i) = "none"
                  /\ emitted'[i][1] = "resumed" => OpenBefore(i) = "paused"
                  /\ emitted'[i][1] = "refilled" => OpenBefore(i) = "underrun"]_vars

\* C8: no callback other than started is delivered for an id before started
\* has been delivered for it.
StartedComesFirst ==
    [][\A i \in DOMAIN emitted' :
           (Proper(emitted'[i]) /\ emitted'[i][1] # "started")
               => <<"started", emitted'[i][2]>> \in ToldBefore(i)]_vars

\* C9: getOffset changes nothing and answers either INVALID_OFFSET or a
\* non-negative number of milliseconds.  It answers INVALID_OFFSET when no
\* adapter is set, the id is not the current one, the state query fails or
\* finds a state change under way, the state is neither PAUSED nor PLAYING,
\* or the position query fails; otherwise it answers the position the
\* engine reports, in whole milliseconds.
OffsetAnswered(id, e) ==
    /\ validateSourceAndId(World, id)
    /\ ~e.getFail
    /\ gstPending(World) = VOID_PENDING
    /\ gstState \in {"PAUSED", "PLAYING"}
    /\ ~e.posFail

StopOnStoppedSource ==
    \A id \in Ids : \A e \in StateEnv :
        /\ (gstState = "NULL" \/ gstPending(World) = "NULL")
               => handleStop(World, id, e) = Ret(World, FALSE)
        /\ LET w == handleStop(World, id, e)
           IN w.ret = TRUE
                  => \A e2 \in StateEnv : handleStop(w, id, e2) = Ret(w, FALSE)

\* A source has been set and played, stop has succeeded for it (the
\* observer was told so) and a later step has emitted nothing: the state a
\* second stop meets.
StoppedSourceMeetsStop ==
    /\ <<"stopped", 1>> \in delivered
    /\ <<"started", 1>> \in delivered
    /\ emitted = <<>>
    /\ gstState = "NULL"
    /\ m_source = NoSource

\* The pipeline and the dispatcher left to themselves after a command: the
\* dispatcher handles the messages waiting on the bus, oldest first, and the
\* pipeline then moves one state towards the requested one and posts the
\* message of the move, until the bus is empty and the pipeline is where it
\* was asked to be.  No call fails on the way.
pipelineStep(w) ==
    LET new == IF Rank(w.gstState) < Rank(w.gstTarget)
               THEN GstStates[Rank(w.gstState) + 1]
               ELSE GstStates[Rank(w.gstState) - 1]
    IN [w EXCEPT !.gstState = new,
                 !.gstFlow = IF w.gstState = "READY" /\ new = "PAUSED"
                             THEN [filling |-> TRUE, pos |-> 0] ELSE @,
                 !.bus = Append(@, StateChanged(w.gstState, new,
                                    IF new = w.gstTarget THEN VOID_PENDING
                                    ELSE w.gstTarget))]

RECURSIVE Settle(_, _)
Settle(w, n) ==
    IF n = 0 \/ w.crashed THEN w
    ELSE IF w.bus # <<>>
    THEN Settle(handleBusMessage([w EXCEPT !.bus = Tail(@)], Head(w.bus), BusOk),
                n - 1)
    ELSE IF w.gstState # w.gstTarget THEN Settle(pipelineStep(w), n - 1)
    ELSE w

\* The bus holds state-changed and buffering messages only.
OnlyStateAndBuffering ==
    \A i \in DOMAIN bus : bus[i].type \in {"STATE_CHANGED", "BUFFERING"}

\* play(id) has been accepted, the dispatcher has not yet handled the report
\* of PLAYING (started has not been sent) and no pause is pending: pause(id)
\* takes the immediate branch.  The pipeline is not at rest in PAUSED, so
\* that the pause request makes it report a change to PAUSED.
PauseMeetsPendingPlay(id) ==
    /\ id # ERROR_SOURCE_ID
    /\ gstState # "PAUSED"
    /\ validateSourceAndId(World, id)
    /\ m_playerObserver
    /\ m_playPending
    /\ ~m_pausePending
    /\ <<"started", id>> \notin delivered
    /\ OnlyStateAndBuffering
    /\ ~crashed

\* C11: when pause(id) is accepted while play(id) is pending, the observer
\* receives started(id) and then one paused(id), and nothing else, whatever
\* state-changed and buffering messages are on the bus for the two requests.
ImmediatePauseStartedThenPaused ==
    \A id \in Ids :
        PauseMeetsPendingPlay(id) =>
            LET w == Settle(handlePause(World, id, CmdOk), MaxSettle)
            IN w.emitted = << <<"started", id>>, <<"paused", id>> >>

\* Playback of id has started, the pipeline is at rest in PLAYING with an
\* empty bus, and no pause has been requested or is in effect.
SteadyPlayback(id) ==
    /\ id # ERROR_SOURCE_ID
    /\ validateSourceAndId(World, id)
    /\ m_playerObserver
    /\ m_playbackStartedSent
    /\ <<"started", id>> \in delivered
    /\ gstState = "PLAYING" /\ gstTarget = "PLAYING"
    /\ bus = <<>>
    /\ ~m_isPaused /\ ~m_pausePending /\ ~m_pauseImmediately
    /\ ~crashed

\* The answers a BUFFERING 100 message can meet that are not failures.
RefillEnv ==
    {BusOk, [BusOk EXCEPT !.seekable = TRUE], [BusOk EXCEPT !.seekQueryFail = TRUE]}

setSourceOf(kind, w) ==
    IF kind = "stream" THEN handleSetIStreamSource(w, SrcOk)
    ELSE handleSetAttachmentReaderSource(w, SrcOk)

\* C13: after setSource has returned id A and a second setSource has
\* returned id B, play(A) returns false, and over the two setSource calls
\* and the rejected play the observer receives no callback carrying A or B.
ReplacedSourceIsSilent ==
    (m_playerObserver /\ thr.pc \in {"none", "done"} /\ ~crashed) =>
        \A k1, k2 \in {"stream", "reader"} : \A e \in PlayEnv :
            LET a == setSourceOf(k1, World)
                b == setSourceOf(k2, a)
                c == play(b, a.ret, e)
            IN /\ c.ret = FALSE
               /\ \A i \in DOMAIN c.emitted : c.emitted[i][2] \notin {a.ret, b.ret}

\* C15: once error has been delivered for an id, play, pause, resume, stop,
\* setOffset and getOffset quoting that id are rejected (false, or
\* INVALID_OFFSET for getOffset) from then on, and no later setSource makes
\* that id the current one again.
ErroredIdStaysRejected ==
    \A id \in Ids :
        (id # ERROR_SOURCE_ID /\ <<"error", id>> \in delivered) =>
            /\ m_currentId # id
            /\ \A e \in PlayEnv : play(World, id, e).ret = FALSE
            /\ \A e \in StateEnv :
                   /\ handleStop(World, id, e).ret = FALSE
                   /\ handlePause(World, id, e).ret = FALSE
                   /\ handleResume(World, id, e).ret = FALSE
            /\ \A e \in OffsetEnv :
                   handleGetOffset(World, id, e).ret = MEDIA_PLAYER_INVALID_OFFSET
            /\ \A offset \in Offsets : handleSetOffset(World, id, offset).ret = FALSE

\* The answers with which the construction of an adapter fails.
SrcFailures == SrcEnv \ {SrcOk}

playRejected(id) ==
    \/ ~validateSourceAndId(World, id)
    \/ gstState = "PLAYING"
    \/ m_playPending
pauseRejected(id) ==
    \/ ~validateSourceAndId(World, id)
    \/ m_pausePending
    \/ (~m_playPending /\ ~m_resumePending /\ gstState # "PLAYING")
resumeRejected(id) ==
    \/ ~validateSourceAndId(World, id)
    \/ gstState # "PAUSED"
    \/ m_resumePending
stopRejected(id) ==
    \/ ~validateSourceAndId(World, id)
    \/ gstState = "NULL"

\* A command that has answered false has told the observer nothing.
Silenced(w) ==
    w.ret = FALSE => (w.emitted = <<>> /\ w.delivered = delivered /\ w.open = open)

\* C17: a play, pause, resume or stop that is rejected for a wrong id, a
\* wrong pipeline state or a pending conflict returns false, and a play,
\* pause, resume or stop that returns false delivers no callback to the
\* observer, onPlaybackError included.
RejectedCommandIsSilent ==
    \A id \in Ids :
        /\ \A e \in PlayEnv :
               LET w == play(World, id, e)
               IN (playRejected(id) => w.ret = FALSE) /\ Silenced(w)
        /\ \A e \in StateEnv :
               /\ LET w == handlePause(World, id, e)
                  IN (pauseRejected(id) => w.ret = FALSE) /\ Silenced(w)
               /\ LET w == handleResume(World, id, e)
                  IN (resumeRejected(id) => w.ret = FALSE) /\ Silenced(w)
               /\ LET w == handleStop(World, id, e)
                  IN (stopRejected(id) => w.ret = FALSE) /\ Silenced(w)

\* Source 1 is playing before an observer, with a pause pending: play(1) is
\* turned down for the state, pause(1) for the pending pause, resume(1) for
\* the state and stop(2) for the id.
CommandsTurnedDown ==
    /\ m_playerObserver
    /\ validateSourceAndId(World, 1)
    /\ gstState = "PLAYING" /\ m_pausePending
    /\ play(World, 1, CmdOk).ret = FALSE
    /\ handlePause(World, 1, CmdOk).ret = FALSE
    /\ handleResume(World, 1, CmdOk).ret = FALSE
    /\ handleStop(World, 2, CmdOk).ret = FALSE

\* C18: in every state a dispatcher handler can meet, the current id is
\* ERROR_SOURCE_ID exactly when no adapter is held, and so no command
\* quoting ERROR_SOURCE_ID passes validateSourceAndId.
CurrentIdIffAdapter ==
    /\ (m_currentId = ERROR_SOURCE_ID) <=> (m_source = NoSource)
    /\ ~validateSourceAndId(World, ERROR_SOURCE_ID)

\* C19: the adapter pointer, the current id, the source id counter, the
\* pipeline handles, the playback flags, the offset manager and the observer
\* reference are touched on the dispatcher only: a step of the preparation
\* thread leaves every one of them as it was.
DispatcherPrivate ==
    [][(thr.pc \in {"create", "store", "load", "mint"} /\ thr' # thr)
           => UNCHANGED <<g_id, ctl>>]_vars

\* C20: posted closures and bus messages are handled in the order of their
\* arrival: while the oldest waiting closure has no message ahead of it
\* (every message on the bus arrived after it was posted) and is not run,
\* the dispatcher handles no bus message.
ArrivalOrder ==
    [][(idle # <<>> /\ Head(idle).ahead = 0 /\ Len(idle') >= Len(idle))
           => Len(bus') >= Len(bus)]_vars

\* The oldest message on the bus is BUFFERING 100 and meets a pending play
\* with a seek point set, no pause in the way.
PrerollMeetsSeekPoint ==
    /\ bus # <<>> /\ Head(bus) = Buffering(Full)
    /\ m_source # NoSource /\ m_currentId # ERROR_SOURCE_ID
    /\ m_playPending /\ ~m_pauseImmediately
    /\ seekPointSet
    /\ ~crashed

\* The play of the current source id is pending before an observer, and the
\* engine has accepted a seek and is filling its buffer from the seek point.
SeekIssued(id) ==
    /\ m_playerObserver
    /\ m_currentId = id
    /\ m_playPending
    /\ gstFlow.filling /\ gstFlow.pos # 0

\* C14: after setSource(url), setOffset(id, d) and play(id), when the
\* preroll completes (BUFFERING 100) and the stream is seekable, the
\* controller issues the seek to d instead of requesting PLAYING, and once
\* the engine has accepted the seek the observer eventually receives
\* started(id), unless an error is delivered for id first.
SeekThenStarted ==
    /\ [](PrerollMeetsSeekPoint =>
            LET w == handleBusMessage([World EXCEPT !.bus = Tail(bus)], Head(bus),
                                      [BusOk EXCEPT !.seekable = TRUE])
            IN /\ w.gstFlow = [filling |-> TRUE, pos |-> seekPoint]
               /\ ~w.seekPointSet
               /\ w.gstTarget = gstTarget
               /\ w.emitted = <<>>)
    /\ \A id \in Ids \ {ERROR_SOURCE_ID} :
           SeekIssued(id) ~> (<<"started", id>> \in delivered
                              \/ <<"error", id>> \in delivered)

\* The URL source 1 was sought to 30000 ms before it played, and the
\* observer has just been told that it started.
StartedAfterSeek ==
    /\ gstFlow.pos = 30000
    /\ gstState = "PLAYING"
    /\ m_currentId = 1
    /\ emitted = << <<"started", 1>> >>

\* C21: every URL setSource closure the dispatcher runs spawns one
\* preparation thread, at a moment when the previous thread has been joined
\* (m_setSourceThread is not joinable) and with the previous source torn
\* down, whatever the interleaving of the callers.
OneThreadPerUrlSetSource ==
    [][urlPosted' < urlPosted
           => /\ ~joinable
              /\ joinable' /\ thr'.pc = "create"
              /\ m_source' = NoSource /\ m_currentId' = ERROR_SOURCE_ID
              /\ appsrc' = NoElement /\ decoder' = NoElement
              /\ ~crashed']_vars

\* The volume getSpeakerSettings reports in the world w.
reportedVolume(w) == handleGetSpeakerSettings(w).ret.volume

Max(a, b) == IF a > b THEN a ELSE b

\* C22: the volume getSpeakerSettings reports is in 0..100 after any
\* sequence of setVolume and adjustVolume calls, and with v the volume
\* reported before adjustVolume(d), d in -100..100, the volume reported
\* after it is min(100, max(0, v + d)).
AdjustVolumeClamps ==
    LET v == reportedVolume(World)
    IN /\ v \in Volumes
       /\ \A d \in Deltas :
              LET w == handleAdjustVolume(World, d)
              IN /\ w.ret = TRUE
                 /\ reportedVolume(w)
                        = Min(AVS_SET_VOLUME_MAX, Max(AVS_SET_VOLUME_MIN, v + d))

\* The volume stands at 50, as after setVolume(50): adjustVolume(+10) makes
\* it 60, adjustVolume(+100) stops at 100 and adjustVolume(-100) at 0.
VolumeAtFifty ==
    /\ reportedVolume(World) = 50
    /\ reportedVolume(handleAdjustVolume(World, 10)) = 60
    /\ reportedVolume(handleAdjustVolume(World, 100)) = 100
    /\ reportedVolume(handleAdjustVolume(World, -100)) = 0

\* The callback that completes what is pending in the world w for id:
\* started for a pending play, resumed for a pending resume.
Completing(w, id) ==
    (IF w.m_playPending THEN << <<"started", id>> >> ELSE <<>>)
        \o (IF w.m_resumePending THEN << <<"resumed", id>> >> ELSE <<>>)

\* C23: a stop(id) that succeeds before an observer delivers started(id) and
\* then stopped(id) when a play is pending, resumed(id) and then stopped(id)
\* when a resume is pending, and stopped(id) alone otherwise; stopped(id) is
\* the last callback for id: the id is current no longer, and what the
\* pipeline and the bus still do delivers nothing more.
StopCompletesPending ==
    \A id \in Ids : \A e \in StateEnv :
        LET w == handleStop(World, id, e)
        IN (m_playerObserver /\ w.ret = TRUE /\ ~crashed) =>
               /\ w.emitted = Completing(World, id) \o << <<"stopped", id>> >>
               /\ ~validateSourceAndId(w, id)
               /\ Settle(w, MaxSettle).emitted = w.emitted

\* C24: pause(id) with a valid id, the state query answering.  With a play
\* or a resume pending and no pause pending it requests PAUSED and sets
\* pauseImmediately, not pausePending; with a pause pending as well it
\* answers false and changes nothing.  With neither pending it succeeds only
\* in PLAYING with no pause pending, and then requests PAUSED and sets
\* pausePending.  A request the engine refuses answers false and changes
\* nothing.
PauseBranches ==
    \A id \in Ids : \A e \in StateEnv :
        (validateSourceAndId(World, id) /\ ~e.getFail) =>
            LET w == handlePause(World, id, e)
            IN IF m_pausePending \/ e.setFail
               THEN w = Ret(World, FALSE)
               ELSE IF m_playPending \/ m_resumePending
               THEN w = Ret([World EXCEPT !.gstTarget = "PAUSED",
                                          !.m_pauseImmediately = TRUE], TRUE)
               ELSE IF gstState = "PLAYING"
               THEN w = Ret([World EXCEPT !.gstTarget = "PAUSED",
                                          !.m_pausePending = TRUE], TRUE)
               ELSE w = Ret(World, FALSE)

\* A pause has been accepted while the play of source 1 was pending: PAUSED
\* is requested, pauseImmediately is set and pausePending is not.
ImmediatePauseTaken ==
    /\ validateSourceAndId(World, 1)
    /\ m_playPending /\ m_pauseImmediately /\ ~m_pausePending
    /\ gstTarget = "PAUSED"

\* C24 as the specification words it: with a play or a resume pending,
\* pause(id) requests PAUSED and sets pauseImmediately without touching
\* pausePending, whatever the value of pausePending.
ImmediatePauseWhateverPending ==
    \A id \in Ids :
        (validateSourceAndId(World, id) /\ (m_playPending \/ m_resumePending)) =>
            LET w == handlePause(World, id, CmdOk)
            IN /\ w.gstTarget = "PAUSED"
               /\ w.m_pauseImmediately
               /\ w.m_pausePending = m_pausePending

\* C25: a BUFFERING message with percent 100 has one of three outcomes.
\* With pauseImmediately set nothing happens: no state is requested and no
\* seek is issued.  Otherwise the seekable flag takes the answer of the seek
\* query (it stays as it was when the query fails); then, with a seek point
\* set and the flag set, the seek is issued and no state is requested, and
\* else PLAYING is requested and no seek is issued.
BufferingFullOutcome ==
    \A e \in BusEnv("BUFFERING") :
        LET w == handleBusMessage(World, Buffering(Full), e)
            seekableNow == IF e.seekQueryFail THEN isSeekable ELSE e.seekable
        IN IF m_pauseImmediately THEN w = World
           ELSE IF seekPointSet /\ seekableNow
           THEN w = [World EXCEPT
                        !.seekPointSet = FALSE, !.seekPoint = 0,
                        !.isSeekable = FALSE,
                        !.gstFlow = IF e.seekFail THEN @
                                    ELSE [filling |-> TRUE, pos |-> seekPoint]]
           ELSE IF e.setFail
           THEN w = sendPlaybackError([World EXCEPT !.isSeekable = seekableNow])
           ELSE w = [World EXCEPT !.isSeekable = seekableNow,
                                  !.gstTarget = "PLAYING"]

\* The preroll of source 1 has met the offset set for it: the play is still
\* pending, the seek has been issued (the buffer fills from 30000 ms), the
\* seek point is cleared and PLAYING has not been requested.
SeekAtPreroll ==
    /\ m_currentId = 1 /\ m_playPending
    /\ gstFlow = [filling |-> TRUE, pos |-> 30000]
    /\ ~seekPointSet /\ ~isSeekable
    /\ gstTarget = "PAUSED"

\* C26: an EOS message is the oldest on the bus and meets the source that
\* played, before an observer.
\* When handleEndOfStream() succeeds and hasAdditionalData() answers true
\* the pipeline is cycled: set to NULL and asked for PLAYING.  In every other
\* case the observer receives finished(id) and nothing else, the adapter is
\* shut down, no id is current, the transient elements are removed and the
\* pipeline stays in NULL with no state requested.
EndOfStreamOutcome ==
    (m_playerObserver /\ m_currentId # ERROR_SOURCE_ID
         /\ validateSourceAndId(World, m_currentId) /\ ~crashed
         /\ bus # <<>> /\ Head(bus) = Plain("EOS")) =>
        \A e \in BusEnv("EOS") :
            LET w == handleBusMessage([World EXCEPT !.bus = Tail(bus)],
                                      Head(bus), e)
            IN IF ~e.eosFail /\ e.more
               THEN (~e.nullFail /\ ~e.setFail) =>
                        /\ w.gstState = "NULL" /\ w.gstTarget = "PLAYING"
                        /\ w.emitted = <<>>
                        /\ w.m_source = m_source /\ w.m_currentId = m_currentId
               ELSE /\ ~w.crashed
                    /\ w.emitted = << <<"finished", m_currentId>> >>
                    /\ m_source \in w.shut
                    /\ w.m_source = NoSource
                    /\ w.m_currentId = ERROR_SOURCE_ID
                    /\ w.appsrc = NoElement /\ w.decoder = NoElement
                    /\ w.gstState = "NULL" /\ w.gstTarget = "NULL"

\* The offset manager of the world w holds nothing.
OffsetCleared(w) == ~w.seekPointSet /\ w.seekPoint = 0 /\ ~w.isSeekable

\* From the world a to the world b the engine has accepted no seek: its data
\* flow is the one of a, or none after a tear-down.
NoSeek(a, b) == b.gstFlow \in {a.gstFlow, NoFlow}

LoopDrained ==
    dtor = "done" => (idle = <<>> /\ urlPosted = 0)

\* C29: the bus handler never calls a method of the source adapter through
\* an absent adapter: whatever message is next on the bus and whatever the
\* adapter and the engine answer, handling it does not dereference a null
\* m_source.
AdapterPresentOnBus ==
    (bus # <<>> /\ ~crashed) =>
        \A e \in BusEnv(Head(bus).type) :
            ~handleBusMessage([World EXCEPT !.bus = Tail(bus)], Head(bus), e).crashed

Kinds(w) == {w.emitted[i][1] : i \in 1..Len(w.emitted)}

\* C31: once onPlaybackPaused(id) has been delivered, the controller does
\* not request PLAYING for that source before a resume or a play is
\* accepted: a BUFFERING 100 message handled next after the message that
\* delivered onPlaybackPaused requests no PLAYING and emits neither
\* onPlaybackResumed nor onBufferRefilled.
PausedStaysPaused ==
    (bus # <<>> /\ ~crashed) =>
        \A e \in BusEnv(Head(bus).type) :
            LET w == handleBusMessage([World EXCEPT !.bus = Tail(bus)], Head(bus), e)
            IN ("paused" \in Kinds(w) /\ w.m_currentId # ERROR_SOURCE_ID
                    /\ w.gstTarget = "PAUSED") =>
                   \A e2 \in BusEnv("BUFFERING") :
                       LET w2 == handleBusMessage([w EXCEPT !.emitted = <<>>],
                                                  Buffering(Full), e2)
                       IN /\ w2.gstTarget # "PLAYING"
                          /\ Kinds(w2) \cap {"resumed", "refilled"} = {}

\* C32: a pause that was accepted of a playing source before an attached
\* observer, and that the engine has carried out, is followed by
\* onPlaybackPaused or by a terminal callback for its source, and
\* m_pausePending is false again afterwards.
AcceptedPauseReported ==
    (m_playerObserver /\ m_pausePending
         /\ gstState = "PAUSED" /\ gstTarget = "PAUSED") ~>
        (/\ ~m_pausePending
         /\ \E i \in 1..Len(emitted) :
                emitted[i][1] \in {"paused"} \cup Terminal)

\* C33: a resume that was accepted before an attached observer, and that
\* the engine has carried out, is followed by onPlaybackResumed or by a
\* terminal callback for its source, and m_resumePending is false again
\* afterwards.
AcceptedResumeReported ==
    (m_playerObserver /\ m_resumePending
         /\ gstState = "PLAYING" /\ gstTarget = "PLAYING") ~>
        (/\ ~m_resumePending
         /\ \E i \in 1..Len(emitted) :
                emitted[i][1] \in {"resumed"} \cup Terminal)

\* C34: no callback is delivered to the observer with ERROR_SOURCE_ID as
\* its source id.
NoCallbackForInvalidId ==
    [][\A i \in 1..Len(emitted') : emitted'[i][2] # ERROR_SOURCE_ID]_vars

\* C35: the pad-added hook never deadlocks with the dispatcher: in no
\* reachable state is the dispatcher inside gst_element_set_state(pipeline,
\* NULL), which waits for the streaming threads to stop, while a streaming
\* thread waits in onPadAdded for the dispatcher to run its closure.
NoHookDeadlock ==
    hook # "stuck"


\* Every handler calls set_value on its promise exactly once, whatever its
\* arguments, the state it runs in and the answers of the engine and of the
\* adapter.
HandlersFulfilOnce ==
    /\ \A e \in SrcEnv :
           /\ handleSetIStreamSource(World, e).sets = 1
           /\ handleSetAttachmentReaderSource(World, e).sets = 1
    /\ \A id \in Ids :
           /\ \A e \in PlayEnv : handlePlay(World, id, e).sets = 1
           /\ \A e \in StateEnv :
                  /\ handleStop(World, id, e).sets = 1
                  /\ handlePause(World, id, e).sets = 1
                  /\ handleResume(World, id, e).sets = 1
           /\ \A e \in OffsetEnv : handleGetOffset(World, id, e).sets = 1
           /\ \A offset \in Offsets : handleSetOffset(World, id, offset).sets = 1
    /\ \A observer \in BOOLEAN : handleSetObserver(World, observer).sets = 1
    /\ \A volume \in Volumes : handleSetVolume(World, volume).sets = 1
    /\ \A delta \in Deltas : handleAdjustVolume(World, delta).sets = 1
    /\ \A mute \in BOOLEAN : handleSetMute(World, mute).sets = 1
    /\ handleGetSpeakerSettings(World).sets = 1

\* C36: the completion of every command is fulfilled exactly once: every
\* handler calls set_value once on every path, and the closure of a URL
\* setSource, once the dispatcher has run it, has started the preparation
\* thread, whose every path ends in one set_value.
CompletionsFulfilledOnce ==
    /\ []HandlersFulfilOnce
    /\ [][urlPosted' < urlPosted =>
              /\ ~crashed'
              /\ thr'.pc = "create"]_vars
    /\ [][(thr.pc = "create" /\ thr' # thr) => thr'.pc \in {"store", "done"}]_vars

====
